---- MODULE Spec2Model ----
(***************************************************************************)
(* Model of src/pricing_analysis.py: the load_and_process function and the *)
(* main script that filters, aggregates, classifies and ranks the rows of  *)
(* one uploaded table.                                                     *)
(*                                                                         *)
(* Conventions.  Column labels and alias strings of the source are Chinese *)
(* or English text; the Chinese ones are written here in pinyin:           *)
(*   danjia = unit price, xiaoliang(dun) = sales volume (tons),            *)
(*   guojia = country / partner, zongxiaoshoue = total sales (revenue).    *)
(* A column name is a sequence of tokens in which " " is a whitespace      *)
(* token; a numeric cell is a sequence of characters.  Prices and          *)
(* quantities are integers, a quantile is kept multiplied by 4 and a       *)
(* median multiplied by 2, so that linear interpolation stays exact.       *)
(***************************************************************************)
EXTENDS Integers, Sequences, FiniteSets, TLC

VARIABLES uploaded_file, pc, df, has_df, err, df_prev,
          use_iqr, min_sales_threshold, selected_countries,
          country_stats, p25, p75, total_rev, total_vol, avg_price_weighted,
          top_df, bot_df, warning,
          iq_pc, iq_in, iq_once, iq_twice

vars == <<uploaded_file, pc, df, has_df, err, df_prev,
          use_iqr, min_sales_threshold, selected_countries,
          country_stats, p25, p75, total_rev, total_vol, avg_price_weighted,
          top_df, bot_df, warning,
          iq_pc, iq_in, iq_once, iq_twice>>

mainVars == <<uploaded_file, pc, df, has_df, err, df_prev,
              use_iqr, min_sales_threshold, selected_countries,
              country_stats, p25, p75, total_rev, total_vol, avg_price_weighted,
              top_df, bot_df, warning>>

iqVars == <<iq_pc, iq_in, iq_once, iq_twice>>

----
\* Bounds of the model.

\* Largest number of data rows in an enumerated uploaded table.
MaxRows == 2

\* Largest number of rows of a working set handed to the IQR filter twice.
MaxIqrRows == 5

----
\* Numbers that may be missing (float NaN of pandas).

NaN == [nan |-> TRUE, v |-> 0]

Num(n) == [nan |-> FALSE, v |-> n]

\* The empty cell of a text column (read as a missing value).
NoPartner == ""

\* Lexicographic order of the partner names used in the model (sorted(),
\* and the sorted group keys of groupby).
PartnerOrder == <<"A", "B", "C", "X", "Y">>

RECURSIVE SumSeq(_)
SumSeq(s) == IF s = <<>> THEN 0 ELSE Head(s) + SumSeq(Tail(s))

\* The column of a frame as a sequence.
Col(rows, f) == [i \in 1..Len(rows) |-> rows[i][f]]

Range(s) == {s[i] : i \in 1..Len(s)}

\* a is b with some rows removed: same rows, same fields, same order
\* (the rows of a frame carry distinct index labels).
IsSubFrame(a, b) == a = SelectSeq(b, LAMBDA r : r \in Range(a))

----
\* Section B of load_and_process: df.columns.str.strip().

RECURSIVE LStrip(_)
LStrip(name) ==
    IF name # <<>> /\ Head(name) = " " THEN LStrip(Tail(name)) ELSE name

RECURSIVE RStrip(_)
RStrip(name) ==
    IF name # <<>> /\ name[Len(name)] = " "
    THEN RStrip(SubSeq(name, 1, Len(name) - 1))
    ELSE name

strip(name) == RStrip(LStrip(name))

\* Section C: the alias lists of the three canonical columns.
PriceAliases == { <<"danjia/meidun">>, <<"jiage/meidun">>, <<"danjia">>,
                  <<"Price">>, <<"Unit", " ", "Price">> }

QtyAliases == { <<"dier-shuliang">>, <<"shuliang">>, <<"Qty">>,
                <<"Quantity">>, <<"Sales", " ", "Qty">> }

PartnerAliases == { <<"maoyi-huoban-mingcheng">>, <<"guojia">>,
                    <<"Country">>, <<"Partner">> }

DANJIA == <<"danjia">>

XIAOLIANG == <<"xiaoliang(dun)">>

GUOJIA == <<"guojia">>

\* col_map applied by df.rename: an unmatched column keeps its name.
col_map(col) ==
    IF col \in PriceAliases THEN DANJIA
    ELSE IF col \in QtyAliases THEN XIAOLIANG
    ELSE IF col \in PartnerAliases THEN GUOJIA
    ELSE col

\* The column names after sections B and C.
renamed(columns) == [i \in 1..Len(columns) |-> col_map(strip(columns[i]))]

\* Section D.
required_cols == <<GUOJIA, DANJIA, XIAOLIANG>>

schema_error(columns) ==
    ~ (\A c \in Range(required_cols) : c \in Range(renamed(columns)))

\* Variant of the error text that prints only the columns not found.
schema_error_fields_missing(columns) ==
    {c \in Range(required_cols) : c \notin Range(renamed(columns))}

\* The text of the error returned by section D: it prints required_cols.
schema_error_fields(columns) == Range(required_cols)

NoErr == [kind |-> "none", fields |-> {}]

----
\* Section E: pd.to_numeric(errors='coerce') on one cell.

Digits == <<"0", "1", "2", "3", "4", "5", "6", "7", "8", "9">>

IsDigit(c) == \E d \in 1..10 : Digits[d] = c

DigitVal(c) == (CHOOSE d \in 1..10 : Digits[d] = c) - 1

RECURSIVE ParseDigits(_, _)
ParseDigits(cell, acc) ==
    IF cell = <<>> THEN acc
    ELSE ParseDigits(Tail(cell), 10 * acc + DigitVal(Head(cell)))

AllDigits(cell) == cell # <<>> /\ \A i \in 1..Len(cell) : IsDigit(cell[i])

to_numeric(cell) ==
    IF AllDigits(cell) THEN Num(ParseDigits(cell, 0))
    ELSE IF cell # <<>> /\ Head(cell) = "-" /\ AllDigits(Tail(cell))
         THEN Num(0 - ParseDigits(Tail(cell), 0))
         ELSE NaN

ColIndex(columns, name) ==
    CHOOSE i \in 1..Len(columns) : renamed(columns)[i] = name

\* Sections E and F and the revenue column, on the rows of a file whose
\* columns passed section D.  A kept row keeps its index label.
clean(file) ==
    LET ci == ColIndex(file.columns, GUOJIA)
        pi == ColIndex(file.columns, DANJIA)
        qi == ColIndex(file.columns, XIAOLIANG)
        conv == [i \in 1..Len(file.rows) |->
                    [idx |-> i,
                     partner |-> file.rows[i][ci],
                     price |-> to_numeric(file.rows[i][pi]),
                     qty |-> to_numeric(file.rows[i][qi])]]
        notna == SelectSeq(conv, LAMBDA r : ~ r.price.nan /\ ~ r.qty.nan)
        pos == SelectSeq(notna, LAMBDA r : r.price.v > 0)
    IN  [i \in 1..Len(pos) |->
            [idx |-> pos[i].idx,
             partner |-> pos[i].partner,
             price |-> pos[i].price.v,
             qty |-> pos[i].qty.v,
             rev |-> pos[i].price.v * pos[i].qty.v]]

\* load_and_process: the pair (df, err) it returns.
load_and_process(file) ==
    IF ~ file.readable
    THEN [has_df |-> FALSE, df |-> <<>>,
          err |-> [kind |-> "read", fields |-> {}]]
    ELSE IF schema_error(file.columns)
    THEN [has_df |-> FALSE, df |-> <<>>,
          err |-> [kind |-> "schema",
                   fields |-> schema_error_fields(file.columns)]]
    ELSE [has_df |-> TRUE, df |-> clean(file), err |-> NoErr]

----
\* Series.quantile(k/4) with linear interpolation, multiplied by 4.
quantile4(values, k) ==
    LET n == Len(values)
        s == SortSeq(values, LAMBDA a, b : a < b)
        at == (n - 1) * k
        lo == (at \div 4) + 1
        fr == at % 4
    IN  IF n = 0 THEN NaN
        ELSE IF fr = 0 THEN Num(4 * s[lo])
        ELSE Num(4 * s[lo] + (s[lo + 1] - s[lo]) * fr)

\* Series.median(), multiplied by 2.
median2(values) ==
    LET n == Len(values)
        s == SortSeq(values, LAMBDA a, b : a < b)
    IN  IF n % 2 = 1 THEN 2 * s[(n + 1) \div 2]
        ELSE s[n \div 2] + s[(n \div 2) + 1]

\* Variant of the filter with exclusive bounds.
iqr_filter_exclusive(rows) ==
    LET Q1 == quantile4(Col(rows, "price"), 1)
        Q3 == quantile4(Col(rows, "price"), 3)
        IQR == Q3.v - Q1.v
    IN  SelectSeq(rows, LAMBDA r :
            /\ ~ Q1.nan
            /\ 8 * r.price > 2 * Q1.v - 3 * IQR
            /\ 8 * r.price < 2 * Q3.v + 3 * IQR)

\* Lines 87-90.  A comparison with NaN is false, so an empty frame stays
\* empty.  With Q1, Q3 multiplied by 4 the bounds are compared times 8.
iqr_filter(rows) ==
    LET Q1 == quantile4(Col(rows, "price"), 1)
        Q3 == quantile4(Col(rows, "price"), 3)
        IQR == Q3.v - Q1.v
    IN  SelectSeq(rows, LAMBDA r :
            /\ ~ Q1.nan
            /\ 8 * r.price >= 2 * Q1.v - 3 * IQR
            /\ 8 * r.price <= 2 * Q3.v + 3 * IQR)

\* groupby('guojia'): the group keys, sorted; a missing key forms no group.
group_keys(rows) ==
    SelectSeq(PartnerOrder, LAMBDA p : \E i \in 1..Len(rows) : rows[i].partner = p)

group(rows, p) == SelectSeq(rows, LAMBDA r : r.partner = p)

\* Line 93.
country_sales_sum(rows, p) == SumSeq(Col(group(rows, p), "rev"))

\* Variant of line 101 with an exclusive threshold.
valid_countries_strict(rows, threshold) ==
    {p \in Range(group_keys(rows)) : country_sales_sum(rows, p) > threshold}

\* Line 101.
valid_countries(rows, threshold) ==
    {p \in Range(group_keys(rows)) : country_sales_sum(rows, p) >= threshold}

\* Line 102 (and 108): df[df['guojia'].isin(keys)].
isin_filter(rows, keys) == SelectSeq(rows, LAMBDA r : r.partner \in keys)

\* Variant of the classification that tests the low bound first.
classify_market_low_first(price2, q25, q75) ==
    IF ~ q25.nan /\ 2 * price2 <= q25.v THEN "Low"
    ELSE IF ~ q75.nan /\ 2 * price2 >= q75.v THEN "High"
    ELSE "Mainstream"

\* Lines 139-142, price being a median times 2 and the bounds times 4.
classify_market(price2, q25, q75) ==
    IF ~ q75.nan /\ 2 * price2 >= q75.v THEN "High"
    ELSE IF ~ q25.nan /\ 2 * price2 <= q25.v THEN "Low"
    ELSE "Mainstream"

\* Lines 128-144: one row per group key, in key order.
aggregate(rows, q25, q75) ==
    LET keys == group_keys(rows)
    IN  [i \in 1..Len(keys) |->
            LET g == group(rows, keys[i])
            IN  [partner |-> keys[i],
                 median_price2 |-> median2(Col(g, "price")),
                 total_quantity |-> SumSeq(Col(g, "qty")),
                 total_revenue |-> SumSeq(Col(g, "rev")),
                 order_count |-> Len(g),
                 tier |-> classify_market(median2(Col(g, "price")), q25, q75)]]

\* Line 149: a fraction num/den, 0 being 0/1.
weighted(rev, vol) ==
    IF vol > 0 THEN [num |-> rev, den |-> vol] ELSE [num |-> 0, den |-> 1]

\* Line 258 / 276: head(10).
TopN == 10

head(s, n) == SubSeq(s, 1, IF Len(s) < n THEN Len(s) ELSE n)

\* sort_values('danjia', ascending=...) with the default kind 'quicksort',
\* which is not a stable sort: every arrangement of the rows that is ordered
\* by the key is a possible result.
sort_values(stats, ascending) ==
    {[i \in 1..Len(stats) |-> stats[f[i]]] :
        f \in {g \in Permutations(1..Len(stats)) :
                 \A i \in 1..(Len(stats) - 1) :
                    IF ascending
                    THEN stats[g[i]].median_price2 <= stats[g[i + 1]].median_price2
                    ELSE stats[g[i]].median_price2 >= stats[g[i + 1]].median_price2}}

----
\* The uploaded files of the model.

\* Header whose three names are an alias, an alias inside whitespace and a
\* name that is canonical already.
HeaderAliased == << <<"Country">>, <<" ", "Price", " ">>, XIAOLIANG >>

HeaderCanonical == << GUOJIA, DANJIA, XIAOLIANG >>

\* "Cost" is no alias of the price column.
HeaderNoPrice == << <<"Partner">>, <<"Cost">>, <<"Sales", " ", "Qty">> >>

\* The aliases are case-sensitive; "Amount" is no alias of the quantity.
HeaderOnlyPrice == << <<"country">>, <<"Unit", " ", "Price">>, <<"Amount">> >>

Headers == {HeaderAliased, HeaderNoPrice, HeaderOnlyPrice}

PartnerCells == {"A", "B", NoPartner}

PriceCells == { <<"0">>, <<"1">>, <<"3">> }

QtyCells == { <<"x">>, <<"-", "2">>, <<"0">>, <<"1">> }

RawRows == PartnerCells \X PriceCells \X QtyCells

Tables == UNION {[1..n -> RawRows] : n \in 0..MaxRows}

\* Scenario A of the specification.
ScenarioA == << <<"X", <<"1", "0", "0">>, <<"1", "0">> >>,
                <<"X", <<"1", "2", "0">>, <<"5">> >>,
                <<"Y", <<"5", "0">>, <<"1", "0", "0">> >> >>

\* Scenario E of the specification.
ScenarioE == << <<"A", <<"1", "0">>, <<"1">> >>,
                <<"B", <<"1", "0">>, <<"1">> >>,
                <<"C", <<"3", "0">>, <<"1">> >> >>

\* A table with one price far from the others.
ScenarioOutlier == << <<"A", <<"1">>, <<"2">> >>,
                      <<"A", <<"1">>, <<"2">> >>,
                      <<"A", <<"1">>, <<"2">> >>,
                      <<"B", <<"3">>, <<"2">> >> >>

\* A table with a price cell that is not a number.
ScenarioUnparsable == << <<"A", <<"x">>, <<"1">> >>,
                         <<"A", <<"3">>, <<"1">> >>,
                         <<"B", <<"-", "1">>, <<"1">> >> >>

Files ==
    {[readable |-> TRUE, columns |-> h, rows |-> t] : h \in Headers, t \in Tables}
    \cup {[readable |-> TRUE, columns |-> HeaderCanonical, rows |-> t] :
            t \in {ScenarioA, ScenarioE, ScenarioOutlier, ScenarioUnparsable}}
    \cup {[readable |-> FALSE, columns |-> <<>>, rows |-> <<>>]}

\* No file in the uploader (the else branch of line 74).
NoFile == [readable |-> FALSE, columns |-> <<>>, rows |-> <<>>]

\* Values the user may type in the number_input of line 94 (min_value=0).
Thresholds == {0, 1, 6000}

----
\* The script, one run over one uploaded file.

InitScript ==
    /\ df = <<>>
    /\ has_df = FALSE
    /\ err = NoErr
    /\ df_prev = <<>>
    /\ use_iqr = FALSE
    /\ min_sales_threshold = 0
    /\ selected_countries = {}
    /\ country_stats = <<>>
    /\ p25 = NaN
    /\ p75 = NaN
    /\ total_rev = 0
    /\ total_vol = 0
    /\ avg_price_weighted = [num |-> 0, den |-> 1]
    /\ top_df = <<>>
    /\ bot_df = <<>>
    /\ warning = FALSE

InitIqOff ==
    /\ iq_pc = "off"
    /\ iq_in = <<>>
    /\ iq_once = <<>>
    /\ iq_twice = <<>>

Init ==
    /\ uploaded_file \in Files
    /\ pc = "start"
    /\ InitScript
    /\ InitIqOff

\* Lines 76-79: load_and_process, then st.error and st.stop on an error.
Load ==
    /\ pc = "start"
    /\ LET r == load_and_process(uploaded_file)
       IN  /\ df' = r.df
           /\ has_df' = r.has_df
           /\ err' = r.err
           /\ pc' = IF r.err # NoErr THEN "stopped" ELSE "loaded"
    /\ UNCHANGED <<uploaded_file, df_prev, use_iqr, min_sales_threshold,
                   selected_countries, country_stats, p25, p75, total_rev,
                   total_vol, avg_price_weighted, top_df, bot_df, warning>>
    /\ UNCHANGED iqVars

\* Lines 84-90: the optional IQR filter.
IqrStage ==
    /\ pc = "loaded"
    /\ \E b \in BOOLEAN :
          /\ use_iqr' = b
          /\ df' = IF b THEN iqr_filter(df) ELSE df
    /\ df_prev' = df
    /\ pc' = "iqr_done"
    /\ UNCHANGED <<uploaded_file, has_df, err, min_sales_threshold,
                   selected_countries, country_stats, p25, p75, total_rev,
                   total_vol, avg_price_weighted, top_df, bot_df, warning>>
    /\ UNCHANGED iqVars

\* Variant of the threshold stage that skips the filter when the
\* threshold is 0.
RevenueStage_skips_zero ==
    /\ pc = "iqr_done"
    /\ \E t \in Thresholds :
          /\ min_sales_threshold' = t
          /\ df' = IF t = 0 THEN df ELSE isin_filter(df, valid_countries(df, t))
    /\ df_prev' = df
    /\ pc' = "rev_done"
    /\ UNCHANGED <<uploaded_file, has_df, err, use_iqr,
                   selected_countries, country_stats, p25, p75, total_rev,
                   total_vol, avg_price_weighted, top_df, bot_df, warning>>
    /\ UNCHANGED iqVars

\* Lines 92-102: the sales threshold.
RevenueStage ==
    /\ pc = "iqr_done"
    /\ \E t \in Thresholds :
          /\ min_sales_threshold' = t
          /\ df' = isin_filter(df, valid_countries(df, t))
    /\ df_prev' = df
    /\ pc' = "rev_done"
    /\ UNCHANGED <<uploaded_file, has_df, err, use_iqr,
                   selected_countries, country_stats, p25, p75, total_rev,
                   total_vol, avg_price_weighted, top_df, bot_df, warning>>
    /\ UNCHANGED iqVars

\* Line 105: the options of the multiselect.
all_valid_countries(rows) == {rows[i].partner : i \in 1..Len(rows)}

\* Variant of the selection stage that filters on an empty selection too.
SelectStage_always_filters ==
    /\ pc = "rev_done"
    /\ \E sel \in SUBSET all_valid_countries(df) :
          /\ selected_countries' = sel
          /\ df' = isin_filter(df, sel)
    /\ df_prev' = df
    /\ pc' = "sel_done"
    /\ UNCHANGED <<uploaded_file, has_df, err, use_iqr, min_sales_threshold,
                   country_stats, p25, p75, total_rev,
                   total_vol, avg_price_weighted, top_df, bot_df, warning>>
    /\ UNCHANGED iqVars

\* Lines 104-108: the optional selection of countries.
SelectStage ==
    /\ pc = "rev_done"
    /\ \E sel \in SUBSET all_valid_countries(df) :
          /\ selected_countries' = sel
          /\ df' = IF sel # {} THEN isin_filter(df, sel) ELSE df
    /\ df_prev' = df
    /\ pc' = "sel_done"
    /\ UNCHANGED <<uploaded_file, has_df, err, use_iqr, min_sales_threshold,
                   country_stats, p25, p75, total_rev,
                   total_vol, avg_price_weighted, top_df, bot_df, warning>>
    /\ UNCHANGED iqVars

\* Lines 128-149: aggregation, classification and the weighted average.
Aggregate ==
    /\ pc = "sel_done"
    /\ p25' = quantile4(Col(df, "price"), 1)
    /\ p75' = quantile4(Col(df, "price"), 3)
    /\ country_stats' = aggregate(df, p25', p75')
    /\ total_rev' = SumSeq(Col(df, "rev"))
    /\ total_vol' = SumSeq(Col(df, "qty"))
    /\ avg_price_weighted' = weighted(total_rev', total_vol')
    /\ pc' = "aggregated"
    /\ UNCHANGED <<uploaded_file, df, has_df, err, df_prev, use_iqr,
                   min_sales_threshold, selected_countries,
                   top_df, bot_df, warning>>
    /\ UNCHANGED iqVars

\* Lines 156-158: the warning and st.stop on an empty frame.
EmptyCheck ==
    /\ pc = "aggregated"
    /\ IF Len(df) = 0
       THEN warning' = TRUE /\ pc' = "stopped"
       ELSE warning' = FALSE /\ pc' = "panels"
    /\ UNCHANGED <<uploaded_file, df, has_df, err, df_prev, use_iqr,
                   min_sales_threshold, selected_countries, country_stats,
                   p25, p75, total_rev, total_vol, avg_price_weighted,
                   top_df, bot_df>>
    /\ UNCHANGED iqVars

\* Lines 258 and 276: the two rankings.
Rank ==
    /\ pc = "panels"
    /\ top_df' \in {head(s, TopN) : s \in sort_values(country_stats, FALSE)}
    /\ bot_df' \in {head(s, TopN) : s \in sort_values(country_stats, TRUE)}
    /\ pc' = "done"
    /\ UNCHANGED <<uploaded_file, df, has_df, err, df_prev, use_iqr,
                   min_sales_threshold, selected_countries, country_stats,
                   p25, p75, total_rev, total_vol, avg_price_weighted,
                   warning>>
    /\ UNCHANGED iqVars

Next ==
    \/ Load
    \/ IqrStage
    \/ RevenueStage
    \/ SelectStage
    \/ Aggregate
    \/ EmptyCheck
    \/ Rank

Spec == Init /\ [][Next]_vars

----
\* The IQR filter of lines 87-90 applied to a working set and then to its
\* own output.

IqrPrices == {1, 2, 4}

IqrFrames ==
    UNION {{[i \in 1..n |->
                [idx |-> i, partner |-> "A", price |-> f[i], qty |-> 1,
                 rev |-> f[i]]] : f \in [1..n -> IqrPrices]} :
           n \in 0..MaxIqrRows}

InitIqr ==
    /\ uploaded_file = NoFile
    /\ pc = "welcome"
    /\ InitScript
    /\ iq_pc = "in"
    /\ iq_in \in IqrFrames
    /\ iq_once = <<>>
    /\ iq_twice = <<>>

IqrOnce ==
    /\ iq_pc = "in"
    /\ iq_once' = iqr_filter(iq_in)
    /\ iq_pc' = "once"
    /\ UNCHANGED <<iq_in, iq_twice>>
    /\ UNCHANGED mainVars

IqrTwice ==
    /\ iq_pc = "once"
    /\ iq_twice' = iqr_filter(iq_once)
    /\ iq_pc' = "twice"
    /\ UNCHANGED <<iq_in, iq_once>>
    /\ UNCHANGED mainVars

NextIqr ==
    \/ IqrOnce
    \/ IqrTwice

SpecIqr == InitIqr /\ [][NextIqr]_vars

----
\* Helpers of the properties.

\* The aggregation of lines 128-149 has run in this state.
Aggregated ==
    \/ pc \in {"aggregated", "panels", "done"}
    \/ pc = "stopped" /\ warning

\* Sum of the revenue of the rows whose partner value is p.
RevOf(rows, p) ==
    SumSeq([i \in 1..Len(rows) |-> IF rows[i].partner = p THEN rows[i].rev ELSE 0])

QtyOf(rows, p) ==
    SumSeq([i \in 1..Len(rows) |-> IF rows[i].partner = p THEN rows[i].qty ELSE 0])

CountOf(rows, p) == Cardinality({i \in 1..Len(rows) : rows[i].partner = p})

PartnersIn(rows) == {rows[i].partner : i \in 1..Len(rows)}

\* The canonical columns that are absent after trimming and alias mapping.
MissingCanonical(columns) ==
    {c \in {GUOJIA, DANJIA, XIAOLIANG} :
        ~ \E i \in 1..Len(columns) : col_map(strip(columns[i])) = c}

\* The inclusive IQR bounds of a frame, times 8.
Lower8(rows) ==
    2 * quantile4(Col(rows, "price"), 1).v
    - 3 * (quantile4(Col(rows, "price"), 3).v - quantile4(Col(rows, "price"), 1).v)

Upper8(rows) ==
    2 * quantile4(Col(rows, "price"), 3).v
    + 3 * (quantile4(Col(rows, "price"), 3).v - quantile4(Col(rows, "price"), 1).v)

WithinBounds(rows) ==
    SelectSeq(rows, LAMBDA r : Lower8(rows) <= 8 * r.price /\ 8 * r.price <= Upper8(rows))

\* Row of the uploaded table in which partner p is seen first.
FirstSeen(p) ==
    LET ci == ColIndex(uploaded_file.columns, GUOJIA)
        at == {i \in 1..Len(uploaded_file.rows) : uploaded_file.rows[i][ci] = p}
    IN  CHOOSE i \in at : \A j \in at : i <= j

\* A ranking is ordered by median price, ties by first appearance.
RankedFirstSeen(ranking, ascending) ==
    \A i, j \in 1..Len(ranking) :
        i < j =>
            \/ IF ascending
               THEN ranking[i].median_price2 < ranking[j].median_price2
               ELSE ranking[i].median_price2 > ranking[j].median_price2
            \/ /\ ranking[i].median_price2 = ranking[j].median_price2
               /\ FirstSeen(ranking[i].partner) < FirstSeen(ranking[j].partner)

----
\* C1: after load_and_process and after every later filter stage, every
\* record of the working set has unit price > 0 and quantity > 0.
C1_PositivePriceAndQuantity ==
    has_df => \A i \in 1..Len(df) : df[i].price > 0 /\ df[i].qty > 0

\* C2: every partner aggregate has exactly one tier, decided against P25 and
\* P75 of the row prices of the final working set in the order High, Low,
\* Mainstream: High iff median >= P75, Low iff not High and median <= P25,
\* Mainstream otherwise (so median = P25 = P75 gives High).
C2_TierRule ==
    Aggregated =>
        \A i \in 1..Len(country_stats) :
            LET m4 == 2 * country_stats[i].median_price2
                Q25 == quantile4(Col(df, "price"), 1).v
                Q75 == quantile4(Col(df, "price"), 3).v
                t == country_stats[i].tier
            IN  /\ t \in {"Low", "Mainstream", "High"}
                /\ (t = "High") <=> (m4 >= Q75)
                /\ (t = "Low") <=> (m4 < Q75 /\ m4 <= Q25)
                /\ (t = "Mainstream") <=> (m4 < Q75 /\ m4 > Q25)

\* C2 witness: an aggregate whose median equals both P25 and P75 is High.
C2_Witness ==
    /\ Aggregated
    /\ \E i \in 1..Len(country_stats) :
          /\ 2 * country_stats[i].median_price2 = quantile4(Col(df, "price"), 1).v
          /\ 2 * country_stats[i].median_price2 = quantile4(Col(df, "price"), 3).v
          /\ country_stats[i].tier = "High"

\* C3: the aggregation, the classification and the weighted average never
\* run on an empty working set (emptiness is detected before them).
C3_NoAggregationOnEmpty ==
    pc = "aggregated" => Len(df) > 0

C6_WeightedAverage ==
    Aggregated =>
        LET rev == SumSeq(Col(country_stats, "total_revenue"))
            vol == SumSeq(Col(country_stats, "total_quantity"))
        IN  IF vol # 0
            THEN avg_price_weighted.num * vol = rev * avg_price_weighted.den
            ELSE avg_price_weighted.num = 0

\* C7: the top ranking is ordered by median price descending and the bottom
\* ranking ascending, partners of equal median price in the order of their
\* first appearance in the input table.
C7_TiesByFirstSeen ==
    pc = "done" =>
        /\ RankedFirstSeen(top_df, FALSE)
        /\ RankedFirstSeen(bot_df, TRUE)

\* C8: every filter stage outputs a sub-collection of the working set it
\* received (no new row, no changed field, no larger size), and a disabled
\* outlier filter or an empty selection leaves the working set unchanged.
C8_FiltersOnlyRemove ==
    pc \in {"iqr_done", "rev_done", "sel_done"} =>
        /\ IsSubFrame(df, df_prev)
        /\ Range(df) \subseteq Range(df_prev)
        /\ Len(df) <= Len(df_prev)
        /\ (pc = "iqr_done" /\ ~ use_iqr) => df = df_prev
        /\ (pc = "sel_done" /\ selected_countries = {}) => df = df_prev

\* C8 witness: the enabled outlier filter removed a row.
C8_Witness ==
    /\ pc = "iqr_done"
    /\ use_iqr
    /\ df # <<>>
    /\ Len(df) < Len(df_prev)

\* C9: the partners of the aggregate table are exactly the distinct partner
\* values of the final working set, one aggregate per partner, each with
\* the row count and the sums of that partner's rows, the counts adding up
\* to the size of the working set.
C9_AggregatesMatchWorkingSet ==
    Aggregated =>
        /\ {country_stats[i].partner : i \in 1..Len(country_stats)} = PartnersIn(df)
        /\ Cardinality(PartnersIn(df)) = Len(country_stats)
        /\ \A i \in 1..Len(country_stats) :
              /\ country_stats[i].order_count = CountOf(df, country_stats[i].partner)
              /\ country_stats[i].total_quantity = QtyOf(df, country_stats[i].partner)
              /\ country_stats[i].total_revenue = RevOf(df, country_stats[i].partner)
        /\ SumSeq(Col(country_stats, "order_count")) = Len(df)

\* C9 witness: a non-empty aggregate table of an input in which a row that
\* passed cleaning has no partner value.
C9_Witness ==
    /\ Aggregated
    /\ country_stats # <<>>
    /\ uploaded_file.readable
    /\ \E i \in 1..Len(uploaded_file.rows) :
          /\ uploaded_file.rows[i][1] = NoPartner
          /\ ~ to_numeric(uploaded_file.rows[i][3]).nan
          /\ to_numeric(uploaded_file.rows[i][2]).v > 0

\* C10 as stated: the IQR filter applied to its own output removes nothing.
C10_Idempotent ==
    iq_pc = "twice" => iq_twice = iq_once

\* C10 amended: each application of the IQR filter keeps exactly the rows
\* inside the inclusive bounds computed from the set handed to it, so a
\* second application returns a sub-collection of the first output and
\* removes exactly the rows outside the bounds recomputed from that output.
C10_RetrimRecomputesBounds ==
    /\ iq_pc \in {"once", "twice"} =>
          /\ iq_once = WithinBounds(iq_in)
          /\ IsSubFrame(iq_once, iq_in)
    /\ iq_pc = "twice" =>
          /\ iq_twice = WithinBounds(iq_once)
          /\ IsSubFrame(iq_twice, iq_once)

\* C10 witness: the second application removed a row after the first did.
C10_Witness ==
    /\ iq_pc = "twice"
    /\ Len(iq_twice) < Len(iq_once)
    /\ Len(iq_once) < Len(iq_in)

TypeOK ==
    /\ pc \in {"start", "loaded", "iqr_done", "rev_done", "sel_done",
               "aggregated", "panels", "done", "stopped", "welcome"}
    /\ has_df \in BOOLEAN

====
